---------------------------- MODULE Spec2Model ----------------------------
(***************************************************************************)
(* Right-hand keyboard half: scan/debounce engine and I2C state publisher  *)
(* (Core/Src/right_side_keyboard.c, second variant, lines 158-337, with    *)
(* right_side_keyboard.h).                                                 *)
(*                                                                         *)
(* uint32_t values (the HAL millisecond tick, lockout_until[]) are held as *)
(* the signed 32-bit integer with the same bit pattern, because the model  *)
(* checker's integers are 32 bits wide: u < 2^31 is held as u, and         *)
(* u >= 2^31 as u - 2^32.  Addition modulo 2^32 is then plain addition     *)
(* (wrapping at the int32 ends) and the tick passing from 0xFFFFFFFF to 0  *)
(* is the step from -1 to 0.  The unsigned order is U32Geq.                *)
(***************************************************************************)
EXTENDS Integers, Sequences, FiniteSets

----------------------------------------------------------------------------
(* Program constants *)

NUM_KEYS == 24
DEBOUNCE_TIME_MS == 10
KEY_STATES_SIZE == 3
ROLLOVER_CAP == 6

GPIO_PIN_RESET == 0
GPIO_PIN_SET == 1

Keys == 0 .. (NUM_KEYS - 1)
PinState == {GPIO_PIN_RESET, GPIO_PIN_SET}

(* Pin number (bit position in the port's IDR) of each key: GPIO_PIN_n is  *)
(* the mask 1 << n.                                                        *)
KEY_PINS ==
    [i \in Keys |->
        CASE i \in 0 .. 11 -> i
          [] i = 12 -> 0
          [] i = 13 -> 1
          [] i = 14 -> 2
          [] i = 15 -> 15
          [] i = 16 -> 4
          [] i = 17 -> 5
          [] i = 18 -> 8
          [] i = 19 -> 9
          [] i = 20 -> 10
          [] i = 21 -> 12
          [] i = 22 -> 13
          [] OTHER  -> 14]

KEY_PORTS == [i \in Keys |-> IF i < 12 THEN "GPIOA" ELSE "GPIOB"]

PortPins == 0 .. 15

----------------------------------------------------------------------------
(* Bounds of the model *)

\* Advances of the tick explored in one behaviour.
MaxTicks == 2
\* Calls of the scan API explored in one behaviour of ScanSpec.
MaxCalls == 2
\* Notifications handled after start-up in one behaviour of Spec.
MaxEvents == 2
\* flip_ago saturates here: FlipCap stands for "FlipCap ms ago or more, or
\* not recorded".
FlipCap == 2

----------------------------------------------------------------------------
(* uint32_t arithmetic on bit patterns *)

MaxInt32 == 2147483647
MinInt32 == -2147483647 - 1

\* a + d modulo 2^32, for 0 <= d < 2^31
U32Add(a, d) ==
    IF a > MaxInt32 - d
    THEN ((a - MaxInt32) + (d - 1)) + MinInt32
    ELSE a + d

\* a >= b as unsigned 32-bit values
U32Geq(a, b) ==
    IF (a < 0) = (b < 0) THEN a >= b ELSE a < 0

\* the tick wraps past 0xFFFFFFFF while advancing from a by d
U32Wraps(a, d) == a < 0 /\ U32Add(a, d) >= 0

----------------------------------------------------------------------------
(* uint8_t bit operations on the report bytes *)

Pow2(n) == IF n = 0 THEN 1
           ELSE IF n = 1 THEN 2
           ELSE IF n = 2 THEN 4
           ELSE IF n = 3 THEN 8
           ELSE IF n = 4 THEN 16
           ELSE IF n = 5 THEN 32
           ELSE IF n = 6 THEN 64
           ELSE 128

BitOf(byte, pos) == (byte \div Pow2(pos)) % 2

\* byte &= ~(1u << pos)
ClearBit(byte, pos) == IF BitOf(byte, pos) = 1 THEN byte - Pow2(pos) ELSE byte

\* memset(state->key_states, 0xFF, sizeof(state->key_states))
AllReleased == [b \in 0 .. (KEY_STATES_SIZE - 1) |-> 255]

\* bit i of the report: byte i / 8, bit i % 8
ReportBit(ks, i) == BitOf(ks[i \div 8], i % 8)


----------------------------------------------------------------------------
(* Debounce engine: RightKeyboardScan6KRO *)

\* A null RightKeyboardState pointer: no bytes behind it.
NULL == << >>

\* Step 1 of the loop body: the raw level of key i in the cached IDR values.
\* An IDR value is held as the set of pin numbers that read high.
RawLevel(i, gpio_a_state, gpio_b_state) ==
    IF KEY_PORTS[i] = "GPIOA"
    THEN (IF KEY_PINS[i] \in gpio_a_state THEN GPIO_PIN_SET ELSE GPIO_PIN_RESET)
    ELSE (IF KEY_PINS[i] \in gpio_b_state THEN GPIO_PIN_SET ELSE GPIO_PIN_RESET)

\* Mutant: now > lockout_until[i].
LockoutExpired_Strict(now, until) == now # until /\ U32Geq(now, until)

\* Mutant: the lockout test dropped.
LockoutExpired_Always(now, until) == TRUE

\* now >= lockout_until[i], compared as uint32_t
LockoutExpired(now, until) == U32Geq(now, until)

\* Mutant: DEBOUNCE_TIME_MS not added.
NewLockout_NoWindow(now) == now

\* Mutant: a window one millisecond too long.
NewLockout_Late(now) == U32Add(now, DEBOUNCE_TIME_MS + 1)

\* Mutant: the window counted from 0 instead of from now.
NewLockout_NoNow(now) == DEBOUNCE_TIME_MS

\* now + DEBOUNCE_TIME_MS, as uint32_t
NewLockout(now) == U32Add(now, DEBOUNCE_TIME_MS)

\* Step 2 of the loop body: is the edge on a key accepted?
EdgeAccepted(raw, debounced, until, now) ==
    raw # debounced /\ LockoutExpired(now, until)

\* Mutant: the early exit dropped.
CapReached_Never(max_keys, pressed_count) == FALSE

\* Mutant: pressed_count > max_keys.
CapReached_OffByOne(max_keys, pressed_count) ==
    max_keys > 0 /\ pressed_count > max_keys

\* Mutant: the loop left one pressed key early.
CapReached_Early(max_keys, pressed_count) ==
    max_keys > 0 /\ pressed_count >= max_keys - 1

\* max_keys > 0 && pressed_count >= max_keys
CapReached(max_keys, pressed_count) ==
    max_keys > 0 /\ pressed_count >= max_keys

\* Mutant: the memset dropped.
ScanStartBuffer_NoMemset(before) == before

\* The report's bytes on entry to the loop: memset(..., 0xFF, ...) overwrites
\* whatever the caller's buffer held.
ScanStartBuffer(before) == AllReleased

\* Mutant: every raw sample that differs from the debounced level restarts
\* the lockout, accepted or not.
ScanKey_ExtendsLockout(i, st, now, gpio_a_state, gpio_b_state, max_keys) ==
    LET raw    == RawLevel(i, gpio_a_state, gpio_b_state)
        accept == EdgeAccepted(raw, st.debounced_state[i], st.lockout_until[i], now)
        deb    == IF accept THEN [st.debounced_state EXCEPT ![i] = raw]
                            ELSE st.debounced_state
        lock   == IF raw # st.debounced_state[i]
                  THEN [st.lockout_until EXCEPT ![i] = NewLockout(now)]
                  ELSE st.lockout_until
    IN  IF deb[i] = GPIO_PIN_RESET
        THEN LET count == (st.pressed_count + 1) % 256
             IN  [debounced_state |-> deb,
                  lockout_until   |-> lock,
                  key_states      |-> [st.key_states EXCEPT
                                         ![i \div 8] = ClearBit(@, i % 8)],
                  pressed_count   |-> count,
                  stop            |-> CapReached(max_keys, count)]
        ELSE [st EXCEPT !.debounced_state = deb, !.lockout_until = lock]

\* One iteration of the for loop, on the scan's working state
\* st = [debounced_state, lockout_until, key_states, pressed_count, stop].
ScanKey(i, st, now, gpio_a_state, gpio_b_state, max_keys) ==
    LET raw    == RawLevel(i, gpio_a_state, gpio_b_state)
        accept == EdgeAccepted(raw, st.debounced_state[i], st.lockout_until[i], now)
        deb    == IF accept THEN [st.debounced_state EXCEPT ![i] = raw]
                            ELSE st.debounced_state
        lock   == IF accept THEN [st.lockout_until EXCEPT ![i] = NewLockout(now)]
                            ELSE st.lockout_until
    IN  IF deb[i] = GPIO_PIN_RESET
        THEN LET count == (st.pressed_count + 1) % 256
             IN  [debounced_state |-> deb,
                  lockout_until   |-> lock,
                  key_states      |-> [st.key_states EXCEPT
                                         ![i \div 8] = ClearBit(@, i % 8)],
                  pressed_count   |-> count,
                  stop            |-> CapReached(max_keys, count)]
        ELSE [st EXCEPT !.debounced_state = deb, !.lockout_until = lock]

RECURSIVE ScanLoop(_, _, _, _, _, _)
ScanLoop(i, st, now, gpio_a_state, gpio_b_state, max_keys) ==
    IF i >= NUM_KEYS \/ st.stop
    THEN st
    ELSE ScanLoop(i + 1,
                  ScanKey(i, st, now, gpio_a_state, gpio_b_state, max_keys),
                  now, gpio_a_state, gpio_b_state, max_keys)

\* void RightKeyboardScan6KRO(RightKeyboardState *state, uint8_t max_keys)
\* state is NULL or the bytes of *state; the result is the new bytes of *state
\* and the new debounce tables.
RightKeyboardScan6KRO(state, max_keys, now, gpio_a_state, gpio_b_state, deb, lock) ==
    IF state = NULL
    THEN [key_states |-> state, debounced_state |-> deb, lockout_until |-> lock]
    ELSE LET st == ScanLoop(0,
                            [debounced_state |-> deb,
                             lockout_until   |-> lock,
                             key_states      |-> ScanStartBuffer(state),
                             pressed_count   |-> 0,
                             stop            |-> FALSE],
                            now, gpio_a_state, gpio_b_state, max_keys)
         IN  [key_states      |-> st.key_states,
              debounced_state |-> st.debounced_state,
              lockout_until   |-> st.lockout_until]

\* void RightKeyboardScan(RightKeyboardState *state)
RightKeyboardScan(state, now, gpio_a_state, gpio_b_state, deb, lock) ==
    RightKeyboardScan6KRO(state, 0, now, gpio_a_state, gpio_b_state, deb, lock)


----------------------------------------------------------------------------
(* State *)

VARIABLES
    tick,             \* uwTick, the HAL millisecond counter (HAL_GetTick)
    gpio_a_idr,       \* GPIOA->IDR: the pins of port A that read high
    gpio_b_idr,       \* GPIOB->IDR
    lockout_until,    \* static uint32_t lockout_until[NUM_KEYS]
    debounced_state,  \* static GPIO_PinState debounced_state[NUM_KEYS]
    keyboard_state,   \* static RightKeyboardState keyboard_state (key_states)
    app_state,        \* a RightKeyboardState owned by a caller of the scan API
    hi2c1,            \* the I2C1 handle: [State, XferCount, OwnAddress1]
    init_ret,         \* what RightKeyboardInit returned ("none" before it ran)
    wire,             \* history: the bytes the master has read in this transfer
    op,               \* history: the last entry point run and the calls it made
    inv,              \* history: entry points run so far
    buf_inv,          \* history: the entry point (by number) whose scan wrote keyboard_state
    err_inv,          \* history: the latest I2C1 error notification (by number)
    accepted_ago,     \* history: ms since key i's last accepted edge, saturating
    window_wraps,     \* history: key i's last lockout window contains the tick wrap
    flip_ago,         \* history: ms since key i's raw level last changed, saturating
                      \*          (recorded by TimedPinsChange only)
    advances,         \* history: how many times the tick has advanced
    idled             \* history: the long idle has happened

vars == <<tick, gpio_a_idr, gpio_b_idr, lockout_until, debounced_state,
          keyboard_state, app_state, hi2c1, init_ret, wire, op, inv, buf_inv,
          err_inv, accepted_ago, window_wraps, flip_ago, advances, idled>>

engine_vars == <<lockout_until, debounced_state, accepted_ago, window_wraps>>
bus_vars == <<keyboard_state, hi2c1, init_ret, wire, buf_inv, err_inv>>
pin_vars == <<gpio_a_idr, gpio_b_idr, flip_ago>>
time_vars == <<tick, advances, idled>>

\* accepted_ago saturates here: DEBOUNCE_TIME_MS + 1 stands for "more than
\* DEBOUNCE_TIME_MS ms ago, or never".
AgoCap == DEBOUNCE_TIME_MS + 1

Min(a, b) == IF a < b THEN a ELSE b

\* The IDR values when exactly the keys of `pressed` are held down (pull-ups:
\* a released key, and a pin with no key, reads high).
IdrOf(port, pressed) ==
    PortPins \ {KEY_PINS[i] : i \in {k \in pressed : KEY_PORTS[k] = port}}

\* The keys held down, as the ports show them.
RawPressed ==
    {i \in Keys : RawLevel(i, gpio_a_idr, gpio_b_idr) = GPIO_PIN_RESET}

\* The sets of keys the environment holds down.
RawPatterns ==
    { {}, {5}, 0 .. 6 }

\* The caps a caller of RightKeyboardScan6KRO passes (0: no cap).
Caps == {0, 2, ROLLOVER_CAP}

\* What a caller's buffer may hold before a scan.
GarbageBuffers ==
    { [b \in 0 .. (KEY_STATES_SIZE - 1) |-> 0],
      [b \in 0 .. (KEY_STATES_SIZE - 1) |-> IF b = 0 THEN 165 ELSE 255] }

\* The C initialisers of the file's statics: lockout_until[] = {0} is all
\* zero; debounced_state[] = {GPIO_PIN_SET} sets element 0 and zero-fills the
\* rest (GPIO_PIN_RESET); keyboard_state is zero-filled.
StaticsInit ==
    /\ lockout_until = [i \in Keys |-> 0]
    /\ debounced_state = [i \in Keys |-> IF i = 0 THEN GPIO_PIN_SET ELSE GPIO_PIN_RESET]
    /\ keyboard_state = [b \in 0 .. (KEY_STATES_SIZE - 1) |-> 0]

\* The entry point that has just returned is forgotten when the environment moves.
NoOp == [name |-> "none", instance |-> "none", max_keys |-> 0, calls |-> << >>]

Init ==
    /\ StaticsInit
    /\ tick = 0
    /\ gpio_a_idr = IdrOf("GPIOA", {})
    /\ gpio_b_idr = IdrOf("GPIOB", {})
    /\ app_state = [b \in 0 .. (KEY_STATES_SIZE - 1) |-> 0]
    /\ hi2c1 = [State |-> "RESET", XferCount |-> 0, OwnAddress1 |-> 0,
                Lock |-> "UNLOCKED"]
    /\ init_ret = "none"
    /\ wire = << >>
    /\ op = NoOp
    /\ inv = 0
    /\ buf_inv = 0
    /\ err_inv = 0
    /\ accepted_ago = [i \in Keys |-> AgoCap]
    /\ window_wraps = [i \in Keys |-> FALSE]
    /\ flip_ago = [i \in Keys |-> FlipCap]
    /\ advances = 0
    /\ idled = FALSE

----------------------------------------------------------------------------
(* Environment: time and keys *)

\* The delays between two events, in ms: the next millisecond, and the last
\* millisecond of a debounce window that started with the previous one.
TickSteps == {1, DEBOUNCE_TIME_MS - 1}

\* Where the tick stands after a long idle: DEBOUNCE_TIME_MS / 2 ms short of
\* wrapping, and 1 ms past a wrap.
IdleEnds == {-(DEBOUNCE_TIME_MS \div 2), 1}

\* SysTick: uwTick advances, d times 1 ms.
SysTick ==
    /\ advances < MaxTicks
    /\ \E d \in TickSteps :
          /\ tick' = U32Add(tick, d)
          /\ accepted_ago' = [i \in Keys |-> Min(accepted_ago[i] + d, AgoCap)]
          /\ flip_ago' = [i \in Keys |-> Min(flip_ago[i] + d, FlipCap)]
    /\ advances' = advances + 1
    /\ op' = NoOp
    /\ UNCHANGED <<idled, gpio_a_idr, gpio_b_idr, lockout_until, debounced_state, window_wraps,
                   bus_vars, app_state, inv>>

\* A long time (2^31 ms or more) passes with no key moving and the debounce
\* tables unchanged; the tick ends near its wrap.
LongIdle ==
    /\ ~idled
    /\ \E end \in IdleEnds : tick' = end
    /\ idled' = TRUE
    /\ accepted_ago' = [i \in Keys |-> AgoCap]
    /\ flip_ago' = [i \in Keys |-> FlipCap]
    /\ op' = NoOp
    /\ UNCHANGED <<advances, gpio_a_idr, gpio_b_idr, lockout_until, debounced_state, window_wraps,
                   bus_vars, app_state, inv>>

\* Keys go down or up: the port inputs change.
PinsChange ==
    /\ \E pressed \in RawPatterns, held \in {RawPressed} :
          /\ pressed # held
          /\ gpio_a_idr' = IdrOf("GPIOA", pressed)
          /\ gpio_b_idr' = IdrOf("GPIOB", pressed)
    /\ op' = NoOp
    /\ UNCHANGED <<time_vars, engine_vars, bus_vars, app_state, inv, flip_ago>>

\* The same, with the time of each key's flip kept in flip_ago.
TimedPinsChange ==
    /\ \E pressed \in RawPatterns, held \in {RawPressed} :
          /\ pressed # held
          /\ gpio_a_idr' = IdrOf("GPIOA", pressed)
          /\ gpio_b_idr' = IdrOf("GPIOB", pressed)
          /\ flip_ago' = [i \in Keys |->
                             IF (i \in pressed) # (i \in held) THEN 0
                             ELSE flip_ago[i]]
    /\ op' = NoOp
    /\ UNCHANGED <<time_vars, engine_vars, bus_vars, app_state, inv>>

\* The history of accepted edges after a scan that took the tables to (deb, lock).
AgoAfter(deb) ==
    [i \in Keys |-> IF deb[i] # debounced_state[i] THEN 0 ELSE accepted_ago[i]]

WrapsAfter(deb) ==
    [i \in Keys |-> IF deb[i] # debounced_state[i]
                    THEN U32Wraps(tick, DEBOUNCE_TIME_MS)
                    ELSE window_wraps[i]]

----------------------------------------------------------------------------
(* The scan API called by application code (ScanSpec) *)

\* RightKeyboardScan(&app_state), or RightKeyboardScan(NULL)
AppScan ==
    /\ inv < MaxCalls
    /\ \E before \in GarbageBuffers \cup {NULL} :
          \E r \in {RightKeyboardScan(before, tick, gpio_a_idr, gpio_b_idr,
                                     debounced_state, lockout_until)} :
              /\ app_state' = IF before = NULL THEN app_state ELSE r.key_states
              /\ debounced_state' = r.debounced_state
              /\ lockout_until' = r.lockout_until
              /\ accepted_ago' = AgoAfter(r.debounced_state)
              /\ window_wraps' = WrapsAfter(r.debounced_state)
              /\ op' = [name |-> "RightKeyboardScan",
                        instance |-> IF before = NULL THEN "NULL" ELSE "app_state",
                        max_keys |-> 0, calls |-> << >>]
    /\ inv' = inv + 1
    /\ UNCHANGED <<time_vars, pin_vars, bus_vars>>

\* RightKeyboardScan6KRO(&app_state, max_keys)
AppScan6KRO ==
    /\ inv < MaxCalls
    /\ \E before \in GarbageBuffers , max_keys \in Caps :
          \E r \in {RightKeyboardScan6KRO(before, max_keys, tick, gpio_a_idr,
                                         gpio_b_idr, debounced_state, lockout_until)} :
              /\ app_state' = r.key_states
              /\ debounced_state' = r.debounced_state
              /\ lockout_until' = r.lockout_until
              /\ accepted_ago' = AgoAfter(r.debounced_state)
              /\ window_wraps' = WrapsAfter(r.debounced_state)
              /\ op' = [name |-> "RightKeyboardScan6KRO", instance |-> "app_state",
                        max_keys |-> max_keys, calls |-> << >>]
    /\ inv' = inv + 1
    /\ UNCHANGED <<time_vars, pin_vars, bus_vars>>

ScanNext == SysTick \/ TimedPinsChange \/ AppScan \/ AppScan6KRO

ScanSpec == Init /\ [][ScanNext]_vars

\* The same across a wrap of the tick (the times of the raw flips not kept).
WrapNext == SysTick \/ LongIdle \/ PinsChange \/ AppScan \/ AppScan6KRO

WrapSpec == Init /\ [][WrapNext]_vars


----------------------------------------------------------------------------
(* The I2C slave transport (HAL) as this file uses it *)

RIGHT_KEYBOARD_I2C_ADDRESS == 66

\* The I2C peripherals whose events reach the HAL callbacks.
Instances == {"I2C1", "I2C2"}

\* HAL_I2C_Init(&hi2c1): status is what the HAL answers.  The lock of a
\* handle is reset only when the handle was never initialised.
HAL_I2C_Init(h, status) ==
    IF status = "HAL_OK"
    THEN [h EXCEPT !.State = "READY", !.XferCount = 0,
                   !.Lock = IF h.State = "RESET" THEN "UNLOCKED" ELSE @]
    ELSE h

\* HAL_I2C_Slave_Transmit_IT(&hi2c1, buffer, size): armed when the handle is
\* ready and not locked by a HAL call in progress, refused (HAL_BUSY)
\* otherwise.
HAL_I2C_Slave_Transmit_IT(h, size) ==
    IF h.State = "READY" /\ h.Lock = "UNLOCKED"
    THEN [status |-> "HAL_OK", h |-> [h EXCEPT !.State = "BUSY_TX", !.XferCount = size]]
    ELSE [status |-> "HAL_BUSY", h |-> h]

\* HAL_I2C_Slave_Receive_IT(&hi2c1, buffer, size)
HAL_I2C_Slave_Receive_IT(h, size) ==
    IF h.State = "READY" /\ h.Lock = "UNLOCKED"
    THEN [status |-> "HAL_OK", h |-> [h EXCEPT !.State = "BUSY_RX", !.XferCount = size]]
    ELSE [status |-> "HAL_BUSY", h |-> h]

----------------------------------------------------------------------------
(* State publisher: the entry points of the file, on the context              *)
(* c = [hi2c1, keyboard_state, debounced_state, lockout_until, calls, ret];   *)
(* calls lists, in order, the calls the entry point has made.                 *)

Context(h, ks, deb, lock) ==
    [hi2c1 |-> h, keyboard_state |-> ks, debounced_state |-> deb,
     lockout_until |-> lock, calls |-> << >>, ret |-> "void"]

\* RightKeyboardScan6KRO(&keyboard_state, max_keys);
CallScan6KRO(c, max_keys, now, gpio_a_state, gpio_b_state) ==
    LET r == RightKeyboardScan6KRO(c.keyboard_state, max_keys, now, gpio_a_state,
                                   gpio_b_state, c.debounced_state, c.lockout_until)
    IN  [hi2c1           |-> c.hi2c1,
         keyboard_state  |-> r.key_states,
         debounced_state |-> r.debounced_state,
         lockout_until   |-> r.lockout_until,
         calls           |-> Append(c.calls, [fn |-> "RightKeyboardScan6KRO",
                                              arg |-> max_keys,
                                              status |-> "void"]),
         ret             |-> c.ret]

\* HAL_I2C_Slave_Transmit_IT(&hi2c1, (uint8_t*)&keyboard_state, sizeof(keyboard_state))
CallTransmitIT(c) ==
    LET t == HAL_I2C_Slave_Transmit_IT(c.hi2c1, KEY_STATES_SIZE)
    IN  [c EXCEPT !.hi2c1 = t.h,
                  !.calls = Append(@, [fn |-> "HAL_I2C_Slave_Transmit_IT",
                                       arg |-> KEY_STATES_SIZE,
                                       status |-> t.status])]

\* HAL_I2C_Slave_Receive_IT(&hi2c1, (uint8_t*)&keyboard_state, sizeof(keyboard_state))
CallReceiveIT(c) ==
    LET t == HAL_I2C_Slave_Receive_IT(c.hi2c1, KEY_STATES_SIZE)
    IN  [c EXCEPT !.hi2c1 = t.h,
                  !.calls = Append(@, [fn |-> "HAL_I2C_Slave_Receive_IT",
                                       arg |-> KEY_STATES_SIZE,
                                       status |-> t.status])]

\* HAL_I2C_Init(&hi2c1), with the status the HAL answers
CallI2CInit(c, status) ==
    [c EXCEPT !.hi2c1 = HAL_I2C_Init(@, status),
              !.calls = Append(@, [fn |-> "HAL_I2C_Init", arg |-> 0,
                                   status |-> status])]

\* Mutant: the first scan made before the I2C peripheral is initialised.
RightKeyboardInit_ScanFirst(c, i2c_status, now, gpio_a_state, gpio_b_state) ==
    LET c1 == [c EXCEPT !.keyboard_state = AllReleased,
                        !.hi2c1.OwnAddress1 = RIGHT_KEYBOARD_I2C_ADDRESS * 2]
        c2 == CallI2CInit(CallScan6KRO(c1, ROLLOVER_CAP, now, gpio_a_state,
                                       gpio_b_state),
                          i2c_status)
    IN  IF i2c_status # "HAL_OK"
        THEN [c2 EXCEPT !.ret = "false"]
        ELSE LET c3 == CallTransmitIT(c2)
             IN  IF c3.calls[Len(c3.calls)].status # "HAL_OK"
                 THEN [c3 EXCEPT !.ret = "false"]
                 ELSE [c3 EXCEPT !.ret = "true"]

\* bool RightKeyboardInit(void); i2c_status is HAL_I2C_Init's answer.
RightKeyboardInit(c, i2c_status, now, gpio_a_state, gpio_b_state) ==
    LET c1 == [c EXCEPT !.keyboard_state = AllReleased,
                        !.hi2c1.OwnAddress1 = RIGHT_KEYBOARD_I2C_ADDRESS * 2]
        c2 == CallI2CInit(c1, i2c_status)
    IN  IF i2c_status # "HAL_OK"
        THEN [c2 EXCEPT !.ret = "false"]
        ELSE LET c3 == CallTransmitIT(
                           CallScan6KRO(c2, ROLLOVER_CAP, now, gpio_a_state,
                                        gpio_b_state))
             IN  IF c3.calls[Len(c3.calls)].status # "HAL_OK"
                 THEN [c3 EXCEPT !.ret = "false"]
                 ELSE [c3 EXCEPT !.ret = "true"]

\* void RightKeyboardI2CTransmit(void)
RightKeyboardI2CTransmit(c, now, gpio_a_state, gpio_b_state) ==
    CallTransmitIT(CallScan6KRO(c, ROLLOVER_CAP, now, gpio_a_state, gpio_b_state))

\* Mutant: the transmit-complete callback arms a receive and scans nothing.
HAL_I2C_SlaveTxCpltCallback_Receive(c, instance, now, gpio_a_state, gpio_b_state) ==
    IF instance = "I2C1" THEN CallReceiveIT(c) ELSE c

\* Mutant: the transmit-complete callback refreshes with an uncapped scan.
HAL_I2C_SlaveTxCpltCallback_Uncapped(c, instance, now, gpio_a_state, gpio_b_state) ==
    IF instance = "I2C1"
    THEN CallTransmitIT(CallScan6KRO(c, 0, now, gpio_a_state, gpio_b_state))
    ELSE c

\* void HAL_I2C_SlaveTxCpltCallback(I2C_HandleTypeDef *hi2c)
HAL_I2C_SlaveTxCpltCallback(c, instance, now, gpio_a_state, gpio_b_state) ==
    IF instance = "I2C1"
    THEN CallTransmitIT(CallScan6KRO(c, ROLLOVER_CAP, now, gpio_a_state, gpio_b_state))
    ELSE c

\* Mutant: the receive-complete callback without the test of the instance.
HAL_I2C_SlaveRxCpltCallback_AnyInstance(c, instance, now, gpio_a_state, gpio_b_state) ==
    RightKeyboardI2CTransmit(c, now, gpio_a_state, gpio_b_state)

\* void HAL_I2C_SlaveRxCpltCallback(I2C_HandleTypeDef *hi2c)
HAL_I2C_SlaveRxCpltCallback(c, instance, now, gpio_a_state, gpio_b_state) ==
    IF instance = "I2C1"
    THEN RightKeyboardI2CTransmit(c, now, gpio_a_state, gpio_b_state)
    ELSE c

\* Mutant: the error callback arms a receive into keyboard_state.
HAL_I2C_ErrorCallback_Receive(c, instance, now, gpio_a_state, gpio_b_state) ==
    IF instance = "I2C1" THEN CallReceiveIT(c) ELSE c

\* Mutant: the error callback re-arms the transmit without scanning.
HAL_I2C_ErrorCallback_NoScan(c, instance, now, gpio_a_state, gpio_b_state) ==
    IF instance = "I2C1" THEN CallTransmitIT(c) ELSE c

\* void HAL_I2C_ErrorCallback(I2C_HandleTypeDef *hi2c)
HAL_I2C_ErrorCallback(c, instance, now, gpio_a_state, gpio_b_state) ==
    IF instance = "I2C1"
    THEN CallTransmitIT(CallScan6KRO(c, ROLLOVER_CAP, now, gpio_a_state, gpio_b_state))
    ELSE c

----------------------------------------------------------------------------
(* The running system (Spec): start-up, the bus and its notifications *)

\* Did the entry point call fn (with an answer among statuses)?
Called(calls, fn, statuses) ==
    \E n \in 1 .. Len(calls) : calls[n].fn = fn /\ calls[n].status \in statuses

\* The state after an entry point returned with context c.
Return(c, name, instance) ==
    /\ hi2c1' = c.hi2c1
    /\ keyboard_state' = c.keyboard_state
    /\ debounced_state' = c.debounced_state
    /\ lockout_until' = c.lockout_until
    /\ accepted_ago' = AgoAfter(c.debounced_state)
    /\ window_wraps' = WrapsAfter(c.debounced_state)
    /\ op' = [name |-> name, instance |-> instance, max_keys |-> ROLLOVER_CAP,
              calls |-> c.calls]
    /\ inv' = inv + 1
    /\ buf_inv' = IF Called(c.calls, "RightKeyboardScan6KRO", {"void"})
                  THEN inv + 1 ELSE buf_inv
    /\ wire' = IF Called(c.calls, "HAL_I2C_Slave_Transmit_IT", {"HAL_OK"})
                  \/ Called(c.calls, "HAL_I2C_Slave_Receive_IT", {"HAL_OK"})
               THEN << >> ELSE wire

\* The handle as the HAL leaves it before it calls a completion or error
\* callback: the transfer is over and the handle ready again.
Released(h) == [h EXCEPT !.State = "READY", !.XferCount = 0]

\* main() calls RightKeyboardInit() once at start-up.
Boot ==
    /\ init_ret = "none"
    /\ \E status \in {"HAL_OK", "HAL_ERROR"} :
          \E c \in {RightKeyboardInit(
                        Context(hi2c1, keyboard_state, debounced_state, lockout_until),
                        status, tick, gpio_a_idr, gpio_b_idr)} :
             /\ Return(c, "RightKeyboardInit", "I2C1")
             /\ init_ret' = c.ret
    /\ UNCHANGED <<time_vars, pin_vars, app_state, err_inv>>

\* The master clocks one byte out of the armed transmit buffer.
MasterReadsByte ==
    /\ hi2c1.State = "BUSY_TX"
    /\ hi2c1.XferCount > 0
    /\ wire' = Append(wire, [byte |-> keyboard_state[KEY_STATES_SIZE - hi2c1.XferCount],
                             gen  |-> buf_inv])
    /\ hi2c1' = [hi2c1 EXCEPT !.XferCount = @ - 1]
    /\ op' = NoOp
    /\ UNCHANGED <<time_vars, pin_vars, engine_vars, keyboard_state, app_state,
                   init_ret, inv, buf_inv, err_inv>>

\* A slave transmit has completed on a peripheral: the HAL calls
\* HAL_I2C_SlaveTxCpltCallback with its handle.
TxComplete ==
    /\ inv <= MaxEvents
    /\ init_ret # "none"
    /\ \E instance \in Instances :
          /\ instance = "I2C1" => hi2c1.State = "BUSY_TX" /\ hi2c1.XferCount = 0
          /\ \E c \in {HAL_I2C_SlaveTxCpltCallback(
                          Context(IF instance = "I2C1" THEN Released(hi2c1) ELSE hi2c1,
                                  keyboard_state, debounced_state, lockout_until),
                          instance, tick, gpio_a_idr, gpio_b_idr)} :
                Return(c, "HAL_I2C_SlaveTxCpltCallback", instance)
    /\ UNCHANGED <<time_vars, pin_vars, app_state, init_ret, err_inv>>

\* A slave receive has completed on a peripheral.
RxComplete ==
    /\ inv <= MaxEvents
    /\ init_ret # "none"
    /\ \E instance \in Instances :
          /\ instance = "I2C1" => hi2c1.State = "BUSY_RX" /\ hi2c1.XferCount = 0
          /\ \E c \in {HAL_I2C_SlaveRxCpltCallback(
                          Context(IF instance = "I2C1" THEN Released(hi2c1) ELSE hi2c1,
                                  keyboard_state, debounced_state, lockout_until),
                          instance, tick, gpio_a_idr, gpio_b_idr)} :
                Return(c, "HAL_I2C_SlaveRxCpltCallback", instance)
    /\ UNCHANGED <<time_vars, pin_vars, app_state, init_ret, err_inv>>

\* A transfer in progress on a peripheral has failed: the HAL drops it and
\* calls HAL_I2C_ErrorCallback.
Error ==
    /\ inv <= MaxEvents
    /\ init_ret # "none"
    /\ \E instance \in Instances :
          /\ instance = "I2C1" => hi2c1.State \in {"BUSY_TX", "BUSY_RX"}
          /\ \E c \in {HAL_I2C_ErrorCallback(
                          Context(IF instance = "I2C1" THEN Released(hi2c1) ELSE hi2c1,
                                  keyboard_state, debounced_state, lockout_until),
                          instance, tick, gpio_a_idr, gpio_b_idr)} :
                Return(c, "HAL_I2C_ErrorCallback", instance)
          /\ err_inv' = IF instance = "I2C1" THEN inv + 1 ELSE err_inv
    /\ UNCHANGED <<time_vars, pin_vars, app_state, init_ret>>

Next ==
    \/ Boot
    \/ (init_ret # "none" /\ SysTick)
    \/ PinsChange
    \/ MasterReadsByte
    \/ TxComplete
    \/ RxComplete
    \/ Error

Spec == Init /\ [][Next]_vars

----------------------------------------------------------------------------
(* Properties of the debounce engine, checked under ScanSpec *)

\* The raw level of key i on the ports now.
Raw(i) == RawLevel(i, gpio_a_idr, gpio_b_idr)

\* An uncapped scan into the caller's buffer has just returned.
UncappedScanReturned ==
    /\ op.name \in {"RightKeyboardScan", "RightKeyboardScan6KRO"}
    /\ op.instance = "app_state"
    /\ op.max_keys = 0

\* A capped scan into the caller's buffer has just returned.
CappedScanReturned ==
    /\ op.name = "RightKeyboardScan6KRO"
    /\ op.instance = "app_state"
    /\ op.max_keys > 0

\* Key i is at rest: released, and its lockout is over (lockout_until[i] <= now).
AtRest(i) ==
    /\ debounced_state[i] = GPIO_PIN_SET
    /\ U32Geq(tick, lockout_until[i])

\* The debounced level of key i at a scan made now: an edge the lockout
\* allows is taken, any other raw level is ignored.
LevelAtScan(i) ==
    IF Raw(i) # debounced_state[i] /\ U32Geq(tick, lockout_until[i])
    THEN Raw(i)
    ELSE debounced_state[i]

\* C1 as stated (refuted): a key at rest whose raw level went to pressed at
\* time T, flip_ago[i] ms before the first uncapped scan that samples it, is
\* debounced pressed by that scan, shows pressed in that scan's bitmap, and is
\* left with lockout_until[i] = T + DEBOUNCE_TIME_MS.
C1_LockoutFromFlipTime ==
    [][UncappedScanReturned' =>
         \A i \in Keys :
            (AtRest(i) /\ Raw(i) = GPIO_PIN_RESET /\ flip_ago[i] < FlipCap)
            => /\ debounced_state'[i] = GPIO_PIN_RESET
               /\ ReportBit(app_state', i) = 0
               /\ lockout_until'[i] = U32Add(tick - flip_ago[i], DEBOUNCE_TIME_MS)]_vars

\* C1 as amended: a key at rest whose raw level is pressed when an uncapped
\* scan samples it at time S is debounced pressed by that scan, shows pressed
\* in that scan's bitmap, and is left with lockout_until[i] = S +
\* DEBOUNCE_TIME_MS (modulo 2^32): the window runs from the scan, not from the
\* raw flip.
C1_DebounceAcceptance ==
    [][UncappedScanReturned' =>
         \A i \in Keys :
            (AtRest(i) /\ Raw(i) = GPIO_PIN_RESET)
            => /\ debounced_state'[i] = GPIO_PIN_RESET
               /\ ReportBit(app_state', i) = 0
               /\ lockout_until'[i] = U32Add(tick, DEBOUNCE_TIME_MS)]_vars

\* A press that was raw for 1 ms has just been accepted by an uncapped scan.
C1_Witness ==
    /\ UncappedScanReturned
    /\ \E i \in Keys :
          /\ flip_ago[i] = 1
          /\ Raw(i) = GPIO_PIN_RESET
          /\ debounced_state[i] = GPIO_PIN_RESET
          /\ accepted_ago[i] = 0
          /\ ReportBit(app_state, i) = 0
          /\ lockout_until[i] = U32Add(tick, DEBOUNCE_TIME_MS)

\* C2: less than DEBOUNCE_TIME_MS ms after an edge of key i was accepted (the
\* tick not wrapping in that window), no step changes the debounced level of
\* key i, whatever the raw levels and however many scans run; so two accepted
\* edges of a key are at least DEBOUNCE_TIME_MS ms apart.
C2_LockoutSuppression ==
    [][\A i \in Keys :
          (accepted_ago[i] < DEBOUNCE_TIME_MS /\ ~window_wraps[i])
          => debounced_state'[i] = debounced_state[i]]_vars

\* After the tick has come near its wrap, an uncapped scan inside the window
\* of key i has sampled a raw level that differs from the debounced level, and
\* left the level alone.
C2_Witness ==
    /\ UncappedScanReturned
    /\ idled
    /\ \E i \in Keys :
          /\ accepted_ago[i] \in 1 .. (DEBOUNCE_TIME_MS - 1)
          /\ Raw(i) # debounced_state[i]

\* C3: an uncapped scan made exactly DEBOUNCE_TIME_MS ms after an edge of key
\* i was accepted, sampling a raw level that differs from the debounced level,
\* accepts the new level in that scan and starts a new lockout.
C3_PostLockoutResponsiveness ==
    [][UncappedScanReturned' =>
         \A i \in Keys :
            (accepted_ago[i] = DEBOUNCE_TIME_MS /\ Raw(i) # debounced_state[i])
            => /\ debounced_state'[i] = Raw(i)
               /\ lockout_until'[i] = U32Add(tick, DEBOUNCE_TIME_MS)
               /\ accepted_ago'[i] = 0]_vars

\* Key 0 starts released with no lockout, so it is released again at tick
\* DEBOUNCE_TIME_MS by a scan only if its press was accepted at tick 0 and
\* its release exactly DEBOUNCE_TIME_MS ms later.
C3_Witness ==
    /\ UncappedScanReturned
    /\ tick = DEBOUNCE_TIME_MS
    /\ debounced_state[0] = GPIO_PIN_SET
    /\ accepted_ago[0] = 0
    /\ lockout_until[0] = U32Add(tick, DEBOUNCE_TIME_MS)

\* C4: when an uncapped scan returns, bit i % 8 of byte i / 8 of the bitmap is
\* 1 iff key i is debounced released (so 0 iff pressed), for each of the 24
\* keys, whatever the buffer held before the scan.
C4_BitmapCorrectness ==
    UncappedScanReturned =>
       \A i \in Keys :
          (ReportBit(app_state, i) = 1) <=> (debounced_state[i] = GPIO_PIN_SET)

\* An uncapped scan has returned a bitmap with pressed and released keys.
C4_Witness ==
    /\ UncappedScanReturned
    /\ \E i, j \in Keys :
          /\ debounced_state[i] = GPIO_PIN_RESET /\ ReportBit(app_state, i) = 0
          /\ debounced_state[j] = GPIO_PIN_SET /\ ReportBit(app_state, j) = 1

\* C5: a scan with cap k > 0 made while more than k keys are debounced
\* pressed reports as pressed exactly the k lowest-indexed of them, and every
\* other key as released.
C5_RolloverCap ==
    [][CappedScanReturned' =>
         LET pressed == {i \in Keys : LevelAtScan(i) = GPIO_PIN_RESET}
         IN  Cardinality(pressed) > op'.max_keys
             => \A i \in Keys :
                   (ReportBit(app_state', i) = 0)
                   <=> (i \in pressed
                        /\ Cardinality({j \in pressed : j < i}) < op'.max_keys)]_vars

\* A capped scan has returned with more keys pressed than the cap, one of
\* them held down, debounced pressed and reported released.
C5_Witness ==
    /\ CappedScanReturned
    /\ Cardinality({i \in Keys : debounced_state[i] = GPIO_PIN_RESET}) > op.max_keys
    /\ \E i \in Keys :
          /\ Raw(i) = GPIO_PIN_RESET
          /\ debounced_state[i] = GPIO_PIN_RESET
          /\ ReportBit(app_state, i) = 1

----------------------------------------------------------------------------
(* Properties of the running system, checked under Spec *)

\* C6 (refuted): once RightKeyboardInit has returned true, in every state
\* between two handlers, bit i of keyboard_state is 1 iff key i is debounced
\* released and 0 iff it is debounced pressed, for each of the 24 keys.
C6_KeyboardStateInvariant ==
    init_ret = "true" =>
       \A i \in Keys :
          (ReportBit(keyboard_state, i) = 1) <=> (debounced_state[i] = GPIO_PIN_SET)

\* C7 (refuted): before the first scan every key is (released, lockout_until
\* = 0), so a first scan that samples every key released changes no debounced
\* level and starts no lockout.
C7_InitialState ==
    [][(inv = 0 /\ inv' = 1) =>
          /\ \A i \in Keys : /\ debounced_state[i] = GPIO_PIN_SET
                             /\ lockout_until[i] = 0
          /\ RawPressed = {} => /\ debounced_state' = debounced_state
                                /\ lockout_until' = lockout_until]_vars

\* The reports an entry point's scan leaves in keyboard_state when it samples
\* the ports now: pressed for the first ROLLOVER_CAP keys debounced pressed.
FreshReport(i) ==
    LET pressed == {k \in Keys : LevelAtScan(k) = GPIO_PIN_RESET}
    IN  IF i \in pressed /\ Cardinality({j \in pressed : j < i}) < ROLLOVER_CAP
        THEN 0 ELSE 1

\* The error callback has just run for I2C1.
ErrorHandled ==
    op.name = "HAL_I2C_ErrorCallback" /\ op.instance = "I2C1"

\* C9: the error callback for I2C1 scans the keys as they are at the error
\* and arms a transmit of that bitmap; every byte the master reads after an
\* error is a byte of a bitmap scanned during or after the handling of the
\* latest error, never of the buffer armed before it.
C9_ErrorRecovery ==
    [][/\ ErrorHandled' =>
             /\ hi2c1'.State = "BUSY_TX"
             /\ hi2c1'.XferCount = KEY_STATES_SIZE
             /\ wire' = << >>
             /\ buf_inv' = err_inv'
             /\ \A i \in Keys : ReportBit(keyboard_state', i) = FreshReport(i)
       /\ err_inv' > 0 =>
             \A n \in 1 .. Len(wire') :
                /\ wire'[n].gen >= err_inv'
                /\ wire'[n].byte = keyboard_state'[n - 1]]_vars

\* After an error on I2C1 the master has read a whole bitmap, scanned by the
\* error callback, that reports key 5 alone as pressed.
C9_Witness ==
    /\ err_inv > 0
    /\ Len(wire) = KEY_STATES_SIZE
    /\ \A n \in 1 .. Len(wire) : wire[n].gen = err_inv
    /\ wire[1].byte = 255 - Pow2(5)
    /\ debounced_state[5] = GPIO_PIN_RESET

\* The scans and arms an entry point made, in order.
ScanAndArmCalls(calls) ==
    SelectSeq(calls, LAMBDA call : call.fn # "HAL_I2C_Init")

\* One of the three triggers has just run: RightKeyboardInit returning true,
\* or the transmit-complete or error callback for I2C1.
Triggered ==
    \/ op.name = "RightKeyboardInit" /\ init_ret = "true"
    \/ /\ op.name \in {"HAL_I2C_SlaveTxCpltCallback", "HAL_I2C_ErrorCallback"}
       /\ op.instance = "I2C1"

\* C10: each trigger makes exactly one scan, with cap ROLLOVER_CAP, and then
\* exactly one HAL_I2C_Slave_Transmit_IT of KEY_STATES_SIZE bytes, in that
\* order, and leaves a transmit (not a receive) armed.
C10_RefreshThenArm ==
    Triggered =>
       /\ ScanAndArmCalls(op.calls) =
             << [fn |-> "RightKeyboardScan6KRO", arg |-> ROLLOVER_CAP, status |-> "void"],
                [fn |-> "HAL_I2C_Slave_Transmit_IT", arg |-> KEY_STATES_SIZE,
                 status |-> "HAL_OK"] >>
       /\ hi2c1.State = "BUSY_TX"
       /\ hi2c1.XferCount = KEY_STATES_SIZE
       /\ buf_inv = inv

\* A transmit has completed on I2C1 and its callback has armed the next one.
C10_Witness ==
    /\ op.name = "HAL_I2C_SlaveTxCpltCallback"
    /\ op.instance = "I2C1"
    /\ Len(op.calls) = 2
    /\ hi2c1.State = "BUSY_TX"

----------------------------------------------------------------------------
(* Properties of the lockout across a wrap of the tick, checked under WrapSpec *)

\* C8 (refuted): wherever the tick stands when an edge of key i is accepted,
\* (a) no scan less than DEBOUNCE_TIME_MS ms later changes the debounced level
\* of key i, and (b) an uncapped scan DEBOUNCE_TIME_MS ms or more later that
\* samples a raw level differing from the debounced level accepts it.
C8_WrapSafeLockout ==
    [][\A i \in Keys :
          /\ accepted_ago[i] < DEBOUNCE_TIME_MS
                => debounced_state'[i] = debounced_state[i]
          /\ (UncappedScanReturned' /\ accepted_ago[i] >= DEBOUNCE_TIME_MS
                                    /\ Raw(i) # debounced_state[i])
                => debounced_state'[i] = Raw(i)]_vars

----------------------------------------------------------------------------
(* Properties of the published report, checked under Spec *)

\* C11: no step writes keyboard_state and leaves a transmit of it in flight
\* with bytes already read; so every byte the master has read of the current
\* report is a byte of the bitmap one single scan produced, and that bitmap
\* is still the buffer's content.
C11_NoTornReport ==
    [][/\ (keyboard_state' # keyboard_state \/ buf_inv' # buf_inv) => wire' = << >>
       /\ \A n \in 1 .. Len(wire') :
             /\ wire'[n].gen = buf_inv'
             /\ wire'[n].byte = keyboard_state'[n - 1]]_vars

\* The master has read a whole report, with a key pressed, that the error
\* callback scanned after start-up.
C11_Witness ==
    /\ Len(wire) = KEY_STATES_SIZE
    /\ buf_inv >= 2
    /\ err_inv = buf_inv
    /\ \A n \in 1 .. Len(wire) : wire[n].gen = buf_inv
    /\ wire[1].byte # 255

----------------------------------------------------------------------------
(* Properties of the scan as a function of the tables, the ports and the   *)
(* tick, checked under WrapSpec                                            *)

\* A scan with the configured cap into the caller's buffer has just returned.
RefreshReturned ==
    /\ op.name = "RightKeyboardScan6KRO"
    /\ op.instance = "app_state"
    /\ op.max_keys = ROLLOVER_CAP

\* No key has an active lockout: lockout_until[i] <= now for every key.
NoActiveLockout ==
    \A i \in Keys : U32Geq(tick, lockout_until[i])

\* The delays, in ms, between two consecutive refreshes.
Elapsed ==
    {0, 1, DEBOUNCE_TIME_MS - 1, DEBOUNCE_TIME_MS, DEBOUNCE_TIME_MS + 1, MaxInt32}

\* C13: a refresh (scan with cap ROLLOVER_CAP) made when no key has an active
\* lockout, followed after any delay by a second refresh that samples the
\* same raw levels: the second produces the same 3-byte bitmap as the first.
C13_Idempotence ==
    [][(RefreshReturned' /\ NoActiveLockout) =>
          \A d \in Elapsed :
             RightKeyboardScan6KRO(app_state', ROLLOVER_CAP, U32Add(tick, d),
                                   gpio_a_idr, gpio_b_idr,
                                   debounced_state', lockout_until').key_states
             = app_state']_vars

\* After the tick has come near its wrap, a refresh made with no lockout
\* active has accepted an edge and reports a key pressed.
C13_Witness ==
    /\ RefreshReturned
    /\ idled
    /\ \E i \in Keys : accepted_ago[i] = 0
    /\ \A j \in Keys : accepted_ago[j] = 0 \/ U32Geq(tick, lockout_until[j])
    /\ app_state # AllReleased

\* C14 (refuted): what a refresh (scan with cap ROLLOVER_CAP) leaves for key
\* i - debounced level, lockout_until and bitmap bit - is the same in a second
\* run from the same tables at the same tick in which the other keys are
\* sampled at other raw levels and key i at the same one.
C14_KeyIndependence ==
    [][RefreshReturned' =>
          \A other \in RawPatterns :
             LET alt == RightKeyboardScan6KRO(app_state, ROLLOVER_CAP, tick,
                                              IdrOf("GPIOA", other),
                                              IdrOf("GPIOB", other),
                                              debounced_state, lockout_until)
             IN  \A i \in Keys :
                    ((i \in other) <=> (i \in RawPressed))
                    => /\ alt.debounced_state[i] = debounced_state'[i]
                       /\ alt.lockout_until[i] = lockout_until'[i]
                       /\ ReportBit(alt.key_states, i) = ReportBit(app_state', i)]_vars

\* C15: in a scan with cap k > 0 that finds its k-th debounced-pressed key at
\* index j, every key after j keeps its debounced level and its lockout_until
\* as they were before the scan and has bit 1 (released) in the bitmap,
\* whatever its raw level and its stored level.
C15_CapTruncationFrame ==
    [][CappedScanReturned' =>
          LET pressed == {i \in Keys : LevelAtScan(i) = GPIO_PIN_RESET}
              last    == {j \in pressed :
                            Cardinality({p \in pressed : p < j}) = op'.max_keys - 1}
          IN  \A j \in last, i \in Keys :
                 i > j => /\ debounced_state'[i] = debounced_state[i]
                          /\ lockout_until'[i] = lockout_until[i]
                          /\ ReportBit(app_state', i) = 1]_vars

\* A capped scan has left alone a key that is held down, debounced released
\* and out of lockout, and reports it released.
C15_Witness ==
    /\ CappedScanReturned
    /\ \E i \in Keys :
          /\ Raw(i) = GPIO_PIN_RESET
          /\ debounced_state[i] = GPIO_PIN_SET
          /\ U32Geq(tick, lockout_until[i])
          /\ ReportBit(app_state, i) = 1

----------------------------------------------------------------------------
(* A timed run of the running system (ScenarioSpec): start-up at 0 ms, key 5 *)
(* down at 100 ms and up at 105 ms, a refresh at 101, 108 and 111 ms; the    *)
(* master reads the armed report whenever it likes.                          *)

\* The instants of the run, in ms: those at which something happens, and
\* some between them.
ScenarioTimes == <<0, 50, 100, 101, 103, 105, 108, 110, 111>>
ScenarioKey == {5}

ScenarioPressAt == ScenarioTimes[3]
ScenarioReleaseAt == ScenarioTimes[6]
ScenarioRefreshAt == <<ScenarioTimes[4], ScenarioTimes[7], ScenarioTimes[9]>>

\* The k-th refresh of the run is entry point number k + 1 (start-up is
\* number 1): it is due when the tick is at its time and k entry points
\* have run.
ScenarioRefreshDue ==
    \E k \in 1 .. Len(ScenarioRefreshAt) :
       tick = ScenarioRefreshAt[k] /\ inv = k

\* What was to happen at the current time has happened.
ScenarioStepDone ==
    /\ init_ret = "true"
    /\ ~ScenarioRefreshDue
    /\ tick = ScenarioPressAt => RawPressed = ScenarioKey
    /\ tick = ScenarioReleaseAt => RawPressed = {}

\* The tick reaches the next time of the run.
ScenarioClock ==
    /\ ScenarioStepDone
    /\ \E n \in 1 .. (Len(ScenarioTimes) - 1) :
          /\ tick = ScenarioTimes[n]
          /\ tick' = ScenarioTimes[n + 1]
          /\ accepted_ago' = [i \in Keys |->
                Min(accepted_ago[i] + (ScenarioTimes[n + 1] - tick), AgoCap)]
    /\ op' = NoOp
    /\ UNCHANGED <<advances, idled, pin_vars, lockout_until, debounced_state,
                   window_wraps, bus_vars, app_state, inv>>

\* Key 5 goes down, and later up.
ScenarioPins ==
    /\ \E pressed \in {{}, ScenarioKey} :
          /\ \/ tick = ScenarioPressAt /\ RawPressed = {} /\ pressed = ScenarioKey
             \/ tick = ScenarioReleaseAt /\ RawPressed = ScenarioKey /\ pressed = {}
          /\ gpio_a_idr' = IdrOf("GPIOA", pressed)
          /\ gpio_b_idr' = IdrOf("GPIOB", pressed)
    /\ op' = NoOp
    /\ UNCHANGED <<time_vars, engine_vars, bus_vars, app_state, inv, flip_ago>>

\* The report has been read whole: the HAL calls HAL_I2C_SlaveTxCpltCallback
\* for I2C1.
ScenarioTxComplete ==
    /\ ScenarioRefreshDue
    /\ hi2c1.State = "BUSY_TX" /\ hi2c1.XferCount = 0
    /\ \E c \in {HAL_I2C_SlaveTxCpltCallback(
                    Context(Released(hi2c1), keyboard_state, debounced_state,
                            lockout_until),
                    "I2C1", tick, gpio_a_idr, gpio_b_idr)} :
          Return(c, "HAL_I2C_SlaveTxCpltCallback", "I2C1")
    /\ UNCHANGED <<time_vars, pin_vars, app_state, init_ret, err_inv>>

\* The transfer has failed: the HAL calls HAL_I2C_ErrorCallback for I2C1.
ScenarioError ==
    /\ ScenarioRefreshDue
    /\ hi2c1.State = "BUSY_TX"
    /\ \E c \in {HAL_I2C_ErrorCallback(
                    Context(Released(hi2c1), keyboard_state, debounced_state,
                            lockout_until),
                    "I2C1", tick, gpio_a_idr, gpio_b_idr)} :
          Return(c, "HAL_I2C_ErrorCallback", "I2C1")
    /\ err_inv' = inv + 1
    /\ UNCHANGED <<time_vars, pin_vars, app_state, init_ret>>

ScenarioNext ==
    \/ Boot
    \/ ScenarioClock
    \/ ScenarioPins
    \/ MasterReadsByte
    \/ ScenarioTxComplete
    \/ ScenarioError

ScenarioSpec == Init /\ [][ScenarioNext]_vars

\* The bytes of keyboard_state, in the order they are sent.
Report(ks) == <<ks[0], ks[1], ks[2]>>

\* C16: in this run, start-up at 0 ms publishes FF FF FF, the refresh at
\* 101 ms publishes DF FF FF, the refresh at 108 ms still publishes DF as
\* byte 0, and the refresh at 111 ms publishes FF as byte 0.
C16_Scenario ==
    (op.name # "none" /\ init_ret = "true") =>
       /\ hi2c1.State = "BUSY_TX" /\ hi2c1.XferCount = KEY_STATES_SIZE
       /\ tick = ScenarioTimes[1] => Report(keyboard_state) = <<255, 255, 255>>
       /\ tick = ScenarioRefreshAt[1] => Report(keyboard_state) = <<223, 255, 255>>
       /\ tick = ScenarioRefreshAt[2] => keyboard_state[0] = 223
       /\ tick = ScenarioRefreshAt[3] => keyboard_state[0] = 255

\* The run has reached its end: the refresh at 111 ms has accepted the
\* release of key 5 and the master has read FF FF FF.
C16_Witness ==
    /\ tick = ScenarioRefreshAt[3]
    /\ inv = 4
    /\ debounced_state[5] = GPIO_PIN_SET
    /\ lockout_until[5] = ScenarioRefreshAt[3] + DEBOUNCE_TIME_MS
    /\ Len(wire) = KEY_STATES_SIZE
    /\ \A n \in 1 .. Len(wire) : wire[n].byte = 255

----------------------------------------------------------------------------
(* The running system for ever (LiveSpec): the tick keeps advancing, through *)
(* its wrap, and the error callback keeps refreshing.  The counters of the   *)
(* other specifications stand still, so that the run can go on.              *)

\* How far past its wrap the tick goes before the next long idle, in ms.
LiveHorizon == 2

\* The key the environment moves.
LivePatterns == { {}, {5} }

\* SysTick: one more millisecond.
LiveTick ==
    /\ init_ret = "true"
    /\ tick < LiveHorizon
    /\ tick' = U32Add(tick, 1)
    /\ accepted_ago' = [i \in Keys |-> Min(accepted_ago[i] + 1, AgoCap)]
    /\ op' = NoOp
    /\ UNCHANGED <<advances, idled, pin_vars, lockout_until, debounced_state,
                   window_wraps, bus_vars, app_state, inv>>

\* A long time passes with no key moving and no notification: the tick ends
\* DEBOUNCE_TIME_MS + 1 ms short of its next wrap.
LiveIdle ==
    /\ init_ret = "true"
    /\ tick >= 0
    /\ tick' = -(DEBOUNCE_TIME_MS + 1)
    /\ idled' = TRUE
    /\ accepted_ago' = [i \in Keys |-> AgoCap]
    /\ op' = NoOp
    /\ UNCHANGED <<advances, pin_vars, lockout_until, debounced_state,
                   window_wraps, bus_vars, app_state, inv>>

\* Key 5 goes down or up.
LivePins ==
    /\ init_ret = "true"
    /\ \E pressed \in LivePatterns, held \in {RawPressed} :
          /\ pressed # held
          /\ gpio_a_idr' = IdrOf("GPIOA", pressed)
          /\ gpio_b_idr' = IdrOf("GPIOB", pressed)
    /\ op' = NoOp
    /\ UNCHANGED <<time_vars, engine_vars, bus_vars, app_state, inv, flip_ago>>

\* The transfer fails: the HAL calls HAL_I2C_ErrorCallback for I2C1.
LiveRefresh ==
    /\ init_ret = "true"
    /\ hi2c1.State = "BUSY_TX"
    /\ \E c \in {HAL_I2C_ErrorCallback(
                    Context(Released(hi2c1), keyboard_state, debounced_state,
                            lockout_until),
                    "I2C1", tick, gpio_a_idr, gpio_b_idr)} :
          /\ hi2c1' = c.hi2c1
          /\ keyboard_state' = c.keyboard_state
          /\ debounced_state' = c.debounced_state
          /\ lockout_until' = c.lockout_until
          /\ accepted_ago' = AgoAfter(c.debounced_state)
          /\ window_wraps' = WrapsAfter(c.debounced_state)
          /\ op' = [name |-> "HAL_I2C_ErrorCallback", instance |-> "I2C1",
                    max_keys |-> ROLLOVER_CAP, calls |-> c.calls]
    /\ UNCHANGED <<time_vars, pin_vars, app_state, init_ret, wire, inv, buf_inv,
                   err_inv>>

LiveNext ==
    \/ Boot
    \/ LiveTick
    \/ LiveIdle
    \/ LivePins
    \/ LiveRefresh

\* Time keeps advancing.
LiveSpec ==
    /\ Init
    /\ [][LiveNext]_vars
    /\ WF_vars(LiveTick \/ LiveIdle)

\* A refresh has just been made.
Refreshed ==
    op.name = "HAL_I2C_ErrorCallback" /\ op.instance = "I2C1"

\* Fewer than ROLLOVER_CAP keys below key i are debounced pressed.
Visited(i) ==
    Cardinality({j \in Keys : j < i /\ debounced_state[j] = GPIO_PIN_RESET})
       < ROLLOVER_CAP

\* C17 (refuted), for key 5: while time keeps advancing, if refreshes keep
\* occurring and from some time on the raw level of the key stays at v while
\* fewer than ROLLOVER_CAP lower keys are debounced pressed, then from some
\* time on keyboard_state reports the key at v (bit 1 for GPIO_PIN_SET, bit 0
\* for GPIO_PIN_RESET).  In other words: refreshes stop, or the premise
\* fails again and again, or the report stays right in the end.
C17_NoPermanentlyStaleReport ==
    \A v \in PinState :
       \/ <>[]~Refreshed
       \/ []<>~(init_ret = "true" /\ Raw(5) = v /\ Visited(5))
       \/ <>[](ReportBit(keyboard_state, 5) = v)


----------------------------------------------------------------------------
(* Discard, not queue or extend, checked under WrapSpec *)

\* A scan has just returned.
ScanReturned ==
    op.name \in {"RightKeyboardScan", "RightKeyboardScan6KRO"}

\* The lockout of key i is active at a scan made now (now < lockout_until[i]).
LockoutActive(i) == ~U32Geq(tick, lockout_until[i])

\* C18: in every scan and for every key i, lockout_until[i] is written if and
\* only if the debounced level of key i changes: a changed level comes with
\* lockout_until[i] = now + DEBOUNCE_TIME_MS (a new value, unless that sum
\* wraps), an unchanged level with an unchanged lockout_until[i]; a raw sample
\* that differs from the debounced level during an active lockout changes
\* neither, and a raw sample equal to the debounced level changes neither.
C18_DiscardNotExtend ==
    [][ScanReturned' =>
         \A i \in Keys :
            /\ debounced_state'[i] # debounced_state[i]
                  => /\ lockout_until'[i] = U32Add(tick, DEBOUNCE_TIME_MS)
                     /\ \/ lockout_until'[i] # lockout_until[i]
                        \/ U32Wraps(tick, DEBOUNCE_TIME_MS)
            /\ debounced_state'[i] = debounced_state[i]
                  => lockout_until'[i] = lockout_until[i]
            /\ (Raw(i) # debounced_state[i] /\ LockoutActive(i))
                  => /\ debounced_state'[i] = debounced_state[i]
                     /\ lockout_until'[i] = lockout_until[i]
            /\ Raw(i) = debounced_state[i]
                  => /\ debounced_state'[i] = debounced_state[i]
                     /\ lockout_until'[i] = lockout_until[i]]_vars

\* A scan has sampled a key bouncing inside its lockout and left its record
\* alone, while it accepted an edge of another key and restarted that key's
\* lockout.
C18_Witness ==
    /\ ScanReturned
    /\ op.instance = "app_state"
    /\ \E i, j \in Keys :
          /\ accepted_ago[i] \in 1 .. (DEBOUNCE_TIME_MS - 1)
          /\ Raw(i) # debounced_state[i]
          /\ LockoutActive(i)
          /\ accepted_ago[j] = 0
          /\ lockout_until[j] = U32Add(tick, DEBOUNCE_TIME_MS)

----------------------------------------------------------------------------
(* The cap below its limit, checked under ScanSpec *)

\* The keys a debounce table holds pressed.
DebouncedPressed(deb) == {i \in Keys : deb[i] = GPIO_PIN_RESET}

\* C19: whatever the debounce tables, the raw levels and the tick when
\* RightKeyboardScan6KRO(state, k) is called with k > 0: if the uncapped scan
\* RightKeyboardScan6KRO(state, 0) from the same state leaves fewer than k
\* keys debounced pressed, the capped scan produces the same bitmap, the same
\* debounced levels and the same lockout_until for all 24 keys as that
\* uncapped scan.
C19_CapTransparent ==
    [][CappedScanReturned' =>
         \A uncapped \in {RightKeyboardScan6KRO(app_state, 0, tick, gpio_a_idr,
                                               gpio_b_idr, debounced_state,
                                               lockout_until)} :
            Cardinality(DebouncedPressed(uncapped.debounced_state)) < op'.max_keys
            => /\ app_state' = uncapped.key_states
               /\ debounced_state' = uncapped.debounced_state
               /\ lockout_until' = uncapped.lockout_until]_vars

\* A scan with cap k has returned with k - 1 keys debounced pressed, one of
\* them just accepted, and a key above it just released.
C19_Witness ==
    /\ CappedScanReturned
    /\ Cardinality(DebouncedPressed(debounced_state)) = op.max_keys - 1
    /\ \E i, j \in Keys :
          /\ i < j
          /\ debounced_state[i] = GPIO_PIN_RESET
          /\ accepted_ago[i] = 0
          /\ ReportBit(app_state, i) = 0
          /\ debounced_state[j] = GPIO_PIN_SET
          /\ accepted_ago[j] = 0

----------------------------------------------------------------------------
(* The size of the published report, checked under Spec *)

\* The keys a bitmap shows pressed.
ShownPressed(ks) == {i \in Keys : ReportBit(ks, i) = 0}

\* The entry point that has just returned handed keyboard_state to
\* HAL_I2C_Slave_Transmit_IT.
HandedToTransmit ==
    Called(op.calls, "HAL_I2C_Slave_Transmit_IT", {"HAL_OK", "HAL_BUSY"})

\* C20: after any sequence of start-up, transmit-complete, receive-complete
\* and error notifications, the buffer handed to HAL_I2C_Slave_Transmit_IT,
\* the buffer of a transmit in flight, and every report the master has read
\* out whole, have at most ROLLOVER_CAP bits equal to 0 among their 24 bits.
C20_ReportSizeBound ==
    /\ (HandedToTransmit \/ hi2c1.State = "BUSY_TX")
          => Cardinality(ShownPressed(keyboard_state)) <= ROLLOVER_CAP
    /\ Len(wire) = KEY_STATES_SIZE
          => Cardinality(ShownPressed([n \in 0 .. (KEY_STATES_SIZE - 1) |->
                                          wire[n + 1].byte])) <= ROLLOVER_CAP

\* The transmit-complete callback has handed over a report with exactly
\* ROLLOVER_CAP keys pressed while more keys than that are held down.
C20_Witness ==
    /\ op.name = "HAL_I2C_SlaveTxCpltCallback"
    /\ op.instance = "I2C1"
    /\ HandedToTransmit
    /\ hi2c1.State = "BUSY_TX"
    /\ Cardinality(ShownPressed(keyboard_state)) = ROLLOVER_CAP
    /\ Cardinality(RawPressed) > ROLLOVER_CAP

----------------------------------------------------------------------------
(* Start-up called by the application, with the HAL's answers (InitSpec) *)

\* A HAL call on hi2c1 in the interrupted context takes or gives back the
\* handle's lock (__HAL_LOCK, __HAL_UNLOCK).
HandleLock ==
    /\ hi2c1.State # "RESET"
    /\ \E lock \in {"LOCKED", "UNLOCKED"} :
          /\ lock # hi2c1.Lock
          /\ hi2c1' = [hi2c1 EXCEPT !.Lock = lock]
    /\ op' = NoOp
    /\ UNCHANGED <<time_vars, pin_vars, engine_vars, keyboard_state, app_state,
                   init_ret, wire, inv, buf_inv, err_inv>>

\* RightKeyboardInit(), whenever the application calls it.
AppInit ==
    /\ inv < MaxCalls
    /\ \E status \in {"HAL_OK", "HAL_ERROR"} :
          \E c \in {RightKeyboardInit(
                        Context(hi2c1, keyboard_state, debounced_state, lockout_until),
                        status, tick, gpio_a_idr, gpio_b_idr)} :
             /\ Return(c, "RightKeyboardInit", "I2C1")
             /\ init_ret' = c.ret
    /\ UNCHANGED <<time_vars, pin_vars, app_state, err_inv>>

InitNext == SysTick \/ PinsChange \/ HandleLock \/ AppInit

InitSpec == Init /\ [][InitNext]_vars

\* RightKeyboardInit has just returned.
InitReturned == op.name = "RightKeyboardInit"

\* C21: RightKeyboardInit returns true or false; true if and only if
\* HAL_I2C_Init answered HAL_OK and HAL_I2C_Slave_Transmit_IT armed a transmit
\* of KEY_STATES_SIZE bytes of a buffer scanned in this call.  If HAL_I2C_Init
\* fails it returns false with no scan made, the debounce tables as they were
\* and no transmit requested; if the transmit is refused it returns false
\* after the scan, with nothing armed.
C21_InitOutcome ==
    [][InitReturned' =>
         LET inited  == Called(op'.calls, "HAL_I2C_Init", {"HAL_OK"})
             scanned == Called(op'.calls, "RightKeyboardScan6KRO", {"void"})
             asked   == Called(op'.calls, "HAL_I2C_Slave_Transmit_IT",
                               {"HAL_OK", "HAL_BUSY"})
             armed   == Called(op'.calls, "HAL_I2C_Slave_Transmit_IT", {"HAL_OK"})
             fresh   == \A i \in Keys : ReportBit(keyboard_state', i) = FreshReport(i)
         IN  /\ init_ret' \in {"true", "false"}
             /\ init_ret' = "true"
                   <=> /\ inited /\ scanned /\ armed /\ fresh
                       /\ buf_inv' = inv'
                       /\ hi2c1'.State = "BUSY_TX"
                       /\ hi2c1'.XferCount = KEY_STATES_SIZE
             /\ ~inited
                   => /\ init_ret' = "false"
                      /\ ~scanned /\ ~asked
                      /\ debounced_state' = debounced_state
                      /\ lockout_until' = lockout_until
                      /\ hi2c1'.State = hi2c1.State
                      /\ hi2c1'.XferCount = hi2c1.XferCount
             /\ (inited /\ ~armed)
                   => /\ init_ret' = "false"
                      /\ scanned /\ asked /\ fresh
                      /\ \A i \in Keys : debounced_state'[i] \in
                            {debounced_state[i], LevelAtScan(i)}
                      /\ hi2c1'.State = "READY"]_vars

\* RightKeyboardInit has returned false after HAL_I2C_Init succeeded: it
\* scanned a pressed key into the buffer and the transmit was refused.
C21_Witness ==
    /\ InitReturned
    /\ init_ret = "false"
    /\ Called(op.calls, "HAL_I2C_Init", {"HAL_OK"})
    /\ Called(op.calls, "RightKeyboardScan6KRO", {"void"})
    /\ Called(op.calls, "HAL_I2C_Slave_Transmit_IT", {"HAL_BUSY"})
    /\ buf_inv = inv
    /\ ReportBit(keyboard_state, 5) = 0
    /\ accepted_ago[5] = 0
=============================================================================
